---- MODULE Spec2Model ----
(***************************************************************************)
(* Gigradar webhook -> proposal store / HubSpot CRM glue service.          *)
(*                                                                         *)
(* JSON documents are functions from a fixed set of keys to string-encoded *)
(* values; a key that is not in the document maps to Absent.  JSON null is *)
(* None, booleans are TrueV / FalseV, numbers are written "#n", every      *)
(* other value is a JSON string.  Nested documents are flattened: the key  *)
(* "job" holds Dict when the value is an object and the keys "job.x" hold  *)
(* its members.                                                            *)
(***************************************************************************)
EXTENDS Integers, Sequences, FiniteSets, TLC

\* ------------------------------------------------------------------ bounds
MaxDeliveries == 2
MaxCalls == 2
MaxPosts == 1

\* ------------------------------------------------------------ JSON values
Absent == "<absent>"
None   == "<None>"
TrueV  == "<True>"
FalseV == "<False>"
Dict   == "<dict>"

NonStrings == {Absent, None, TrueV, FalseV, Dict, "#0", "#7", "#75.5", "#1700000000"}

\* isinstance(v, str)
IsStr(v) == v \notin NonStrings

\* Python truthiness of a (non-container) value
Truthy(v) == v \notin {Absent, None, FalseV, "", "#0"}

\* a or b
Or(a, b) == IF Truthy(a) THEN a ELSE b

\* d.get(k) and d.get(k, default)
Get(d, k) == IF d[k] = Absent THEN None ELSE d[k]
GetD(d, k, dflt) == IF d[k] = Absent THEN dflt ELSE d[k]

\* k in d
Has(d, k) == d[k] # Absent

\* str(v), as CharField.to_python applies it to a non-string value
Str(v) ==
    CASE v = "#7" -> "7"
      [] v = "#0" -> "0"
      [] v = "#75.5" -> "75.5"
      [] v = "#1700000000" -> "1700000000"
      [] v = TrueV -> "True"
      [] v = FalseV -> "False"
      [] OTHER -> v

IdKeys == {"id", "proposalId", "_id"}
TopKeys == {"opportunityId", "opportunity_id", "jobId", "job_id",
            "sent", "scheduledAt", "createdAt", "created_at",
            "error", "hasError", "errorCode", "error_code",
            "errorMessage", "error_message",
            "scannerId", "scanner_id", "scannerName", "scanner_name",
            "teamId", "team_id", "teamName", "team_name", "job"}
JobKeys == {"job.title", "job.jobTitle", "job.budget", "job.hourlyRate",
            "job.fixedPrice", "job.type", "job.jobType", "job.description",
            "job.client", "job.clientEmail", "job.clientName", "job.companyName"}
ClientKeys == {"job.client.email", "job.client.name", "job.client.company"}
EnvelopeKeys == {"event", "type", "data"}
Keys == IdKeys \cup TopKeys \cup JobKeys \cup ClientKeys \cup EnvelopeKeys

\* the empty document {}
EmptyDoc == [k \in Keys |-> Absent]

\* the document d extended/overridden by the members of o
With(d, o) == [k \in Keys |-> IF k \in DOMAIN o THEN o[k] ELSE d[k]]

\* the document with exactly the members of o
Doc(o) == With(EmptyDoc, o)

\* ------------------------------------------------- django.utils.dateparse
\* parse_datetime: a datetime for a well formatted valid string, None for a
\* string that is not well formatted, ValueError for a well formatted string
\* that is no valid date.
DateValid == {"2024-01-15T10:00:00Z", "2024-01-15 10:00:00+00:00", "2024-03-01T09:30:00Z"}
DateBadCalendar == {"2024-02-30T10:00:00Z"}

parse_datetime_raises(s) == s \in DateBadCalendar

parse_datetime(s) ==
    CASE s \in {"2024-01-15T10:00:00Z", "2024-01-15 10:00:00+00:00"} -> "dt:2024-01-15 10:00:00 UTC"
      [] s = "2024-03-01T09:30:00Z" -> "dt:2024-03-01 09:30:00 UTC"
      [] OTHER -> None

IsDatetime(v) == v \in {"dt:2024-01-15 10:00:00 UTC", "dt:2024-03-01 09:30:00 UTC"}

\* float(budget): the number, or raises (non numeric string)
float_raises(v) == v \notin {"150", "#75.5", "#7", "#1700000000", TrueV}

\* DecimalField(max_digits=10, decimal_places=2) of float(v)
DecimalOf(v) ==
    CASE v = "150" -> "150.00"
      [] v = "#75.5" -> "75.50"
      [] v = "#7" -> "7.00"
      [] v = TrueV -> "1.00"
      [] OTHER -> None

\* the value does not fit max_digits=10: the save raises
DecimalOverflow(v) == v = "#1700000000"

\* --------------------------------------------------------------- the store
VARIABLES
    store,      \* the rows of the GigradarProposal table
    nextPk,     \* the next auto-increment primary key
    clock,      \* the wall clock (auto_now / auto_now_add)
    contacts,   \* the contacts the CRM holds
    deals,      \* the deals the CRM holds
    assocs,     \* the contact-to-deal associations the CRM holds
    calls,      \* the CRM API calls the last operation issued, in order
    config,     \* the deployment environment (os.getenv)
    response,   \* the HTTP response to the last request
    nOps,       \* operations performed so far
    last,       \* the last operation: its input and what it answered
    workers     \* the concurrent deliveries: position, payload, loaded object

storeVars == <<store, nextPk, clock>>
crmVars == <<contacts, deals, assocs, calls>>
viewVars == <<config, response>>
raceVars == <<workers>>
vars == <<store, nextPk, clock, contacts, deals, assocs, calls, config, response, nOps, last,
          workers>>

\* a row as get_or_create(proposal_id=pid, defaults={}) inserts it
BareRow(pk, pid, now) ==
    [pk |-> pk, proposal_id |-> Str(pid), opportunity_id |-> "", job_id |-> None,
     status |-> None, sent_at |-> None, scheduled_at |-> None, created_at |-> None,
     has_error |-> FalseV, error_code |-> None, error_message |-> None,
     scanner_id |-> None, scanner_name |-> None, team_id |-> None, team_name |-> None,
     job_title |-> None, job_budget |-> None, job_type |-> None,
     client_email |-> None, client_name |-> None, client_company |-> None,
     hubspot_contact_id |-> None, hubspot_deal_id |-> None,
     raw_data |-> EmptyDoc, created |-> now, updated |-> now]

\* data.get('id') or data.get('proposalId') or data.get('_id')
ExtractIdWithDefault(data) ==
    Or(Get(data, "id"), Or(Get(data, "proposalId"), Or(Get(data, "_id"), "unknown")))
ExtractId(data) == Or(Get(data, "id"), Or(Get(data, "proposalId"), Get(data, "_id")))

\* objects.filter(proposal_id=pid)
Lookup(st, pid) == {r \in st : r.proposal_id = Str(pid)}

\* cls.objects.get_or_create(proposal_id=pid, defaults={}): the store after it
AlwaysCreate(st, pk, pid, now) == st \cup {BareRow(pk, pid, now)}
GetOrCreate(st, pk, pid, now) ==
    IF Lookup(st, pid) # {} THEN st ELSE st \cup {BareRow(pk, pid, now)}

\* one timestamp attribute: assigned only when the key is in the data; a
\* string is parsed (a raising parse is swallowed), anything else is
\* assigned as it is
MapTimestamp(old, present, v) ==
    IF ~present THEN old
    ELSE IF IsStr(v)
         THEN (IF parse_datetime_raises(v) THEN old ELSE parse_datetime(v))
         ELSE v

\* data.get(k1) or data.get(k2), assigned whatever the attribute held
MapPairKeepsOld(old, data, k1, k2) == Or(Or(Get(data, k1), Get(data, k2)), old)
MapPair(old, data, k1, k2) == Or(Get(data, k1), Get(data, k2))

JobIsDict(data) == GetD(data, "job", Dict) = Dict
ClientIsDict(data) == GetD(data, "job.client", Dict) = Dict
Budget(data) ==
    Or(Get(data, "job.budget"), Or(Get(data, "job.hourlyRate"), Get(data, "job.fixedPrice")))

\* the attribute assignments of create_from_webhook_data on the object p
MapFields(p, data) ==
    [p EXCEPT
       !.opportunity_id = Or(Get(data, "opportunityId"), Or(Get(data, "opportunity_id"), "")),
       !.job_id = Or(Get(data, "jobId"), Or(Get(data, "job_id"), "")),
       !.sent_at = MapTimestamp(@, Has(data, "sent"), data["sent"]),
       !.scheduled_at = MapTimestamp(@, Has(data, "scheduledAt"), data["scheduledAt"]),
       !.created_at = MapTimestamp(@, Has(data, "createdAt") \/ Has(data, "created_at"),
                                   Or(Get(data, "createdAt"), Get(data, "created_at"))),
       !.has_error = Or(GetD(data, "error", FalseV), GetD(data, "hasError", FalseV)),
       !.error_code = MapPair(@, data, "errorCode", "error_code"),
       !.error_message = MapPair(@, data, "errorMessage", "error_message"),
       !.scanner_id = MapPair(@, data, "scannerId", "scanner_id"),
       !.scanner_name = MapPair(@, data, "scannerName", "scanner_name"),
       !.team_id = MapPair(@, data, "teamId", "team_id"),
       !.team_name = MapPair(@, data, "teamName", "team_name"),
       !.job_title = IF JobIsDict(data)
                     THEN Or(Get(data, "job.title"), Get(data, "job.jobTitle")) ELSE @,
       !.job_budget = IF JobIsDict(data) /\ Truthy(Budget(data)) /\ ~float_raises(Budget(data))
                      THEN Budget(data) ELSE @,
       !.job_type = IF JobIsDict(data)
                    THEN Or(Get(data, "job.type"), Get(data, "job.jobType")) ELSE @,
       !.client_email = IF ~JobIsDict(data) THEN @
                        ELSE IF ClientIsDict(data) THEN Get(data, "job.client.email")
                        ELSE Get(data, "job.clientEmail"),
       !.client_name = IF ~JobIsDict(data) THEN @
                       ELSE IF ClientIsDict(data) THEN Get(data, "job.client.name")
                       ELSE Get(data, "job.clientName"),
       !.client_company = IF ~JobIsDict(data) THEN @
                          ELSE IF ClientIsDict(data) THEN Get(data, "job.client.company")
                          ELSE Get(data, "job.companyName"),
       !.raw_data = data]

\* the object is a stored row whose job_budget column holds a Decimal text;
\* after MapFields the attribute may hold the raw payload value
BudgetColumn(v) == IF v \in {None, "150.00", "75.50", "7.00", "1.00"} THEN v ELSE DecimalOf(v)

\* BooleanField.to_python of the values it accepts
BoolColumn(v) == IF v = "#0" THEN FalseV ELSE v

\* Model.save(): the field preparation raises for a value the column cannot
\* take (a non-datetime in a DateTimeField, a non-boolean in the
\* BooleanField, a number too wide for the DecimalField)
SaveRaises(p) ==
    \/ \E f \in {"sent_at", "scheduled_at", "created_at"} : p[f] # None /\ ~IsDatetime(p[f])
    \/ p.has_error \notin {TrueV, FalseV, "#0"}
    \/ DecimalOverflow(p.job_budget)

\* the column values save() writes for the object p at time now
PreparedTouchesCreated(p, now) ==
    [p EXCEPT
       !.opportunity_id = Str(@), !.job_id = Str(@),
       !.error_code = Str(@), !.error_message = Str(@),
       !.scanner_id = Str(@), !.scanner_name = Str(@),
       !.team_id = Str(@), !.team_name = Str(@),
       !.job_title = Str(@), !.job_type = Str(@),
       !.client_email = Str(@), !.client_name = Str(@), !.client_company = Str(@),
       !.job_budget = BudgetColumn(@),
       !.has_error = BoolColumn(@),
       !.created = now, !.updated = now]
Prepared(p, now) ==
    [p EXCEPT
       !.opportunity_id = Str(@), !.job_id = Str(@),
       !.error_code = Str(@), !.error_message = Str(@),
       !.scanner_id = Str(@), !.scanner_name = Str(@),
       !.team_id = Str(@), !.team_name = Str(@),
       !.job_title = Str(@), !.job_type = Str(@),
       !.client_email = Str(@), !.client_name = Str(@), !.client_company = Str(@),
       !.job_budget = BudgetColumn(@),
       !.has_error = BoolColumn(@),
       !.updated = now]

SaveKeepsStoredTimestamp(st, p, now) ==
    {IF r.pk = p.pk
     THEN [Prepared(p, now) EXCEPT !.sent_at = IF @ = None THEN r.sent_at ELSE @]
     ELSE r : r \in st}
Save(st, p, now) == {IF r.pk = p.pk THEN Prepared(p, now) ELSE r : r \in st}

\* GigradarProposal.create_from_webhook_data(data): the store after the call
\* and how the call ended
create_from_webhook_data(st, pk, now, data) ==
    IF ~Truthy(ExtractId(data))
    THEN [store |-> st, result |-> "ValueError", pid |-> None]
    ELSE LET pid == ExtractId(data)
             st1 == GetOrCreate(st, pk, pid, now)
             row == CHOOSE r \in Lookup(st1, pid) : TRUE
             p   == MapFields(row, data)
         IN IF SaveRaises(p)
            THEN [store |-> st1, result |-> "SaveError", pid |-> Str(pid)]
            ELSE [store |-> Save(st1, p, now), result |-> "ok", pid |-> Str(pid)]

\* ------------------------------------------------------------ the CRM client
\* what the CRM answers to the calls of one operation: contact creation and
\* deal creation succeed, fail with an ApiException or fail below the API
\* (connection error); the search finds the contact, finds nothing or fails;
\* the association succeeds or fails
Answers ==
    [contact : {"ok", "api_error", "net_error"}, search : {"found", "empty", "error"},
     deal : {"ok", "api_error", "net_error"}, assoc : {"ok", "error"}]

\* the log holds the call of api answered with outcome
Made(log, api, outcome) == \E i \in 1..Len(log) : log[i] = [api |-> api, outcome |-> outcome]

\* the CRM answering every call with success
Quiet == [contact |-> "ok", search |-> "found", deal |-> "ok", assoc |-> "ok"]

\* one more call in the log of the CRM state c
Call(c, api, outcome) ==
    [c EXCEPT !.calls = Append(@, [api |-> api, outcome |-> outcome])]

Crm == [contacts |-> contacts, deals |-> deals, assocs |-> assocs, calls |-> <<>>]

\* HubSpotService._find_contact_by_email
find_contact_by_email(c, email, env) ==
    LET hits == {x \in c.contacts : x.email = email}
        outcome == IF env.search = "error" THEN "error"
                   ELSE IF env.search = "found" /\ hits # {} THEN "found" ELSE "empty"
    IN [crm |-> Call(c, "contacts.search", outcome),
        ret |-> IF outcome = "found" THEN (CHOOSE x \in hits : TRUE).id ELSE None,
        exc |-> None]

\* HubSpotService.create_contact
create_contact_no_lookup(c, email, env) ==
    LET exists == \E x \in c.contacts : x.email = email
        outcome == IF env.contact # "ok" THEN env.contact
                   ELSE IF exists THEN "conflict" ELSE "created"
        c1 == Call(c, "contacts.create", outcome)
        id == "c" \o ToString(Cardinality(c.contacts) + 1)
    IN CASE outcome = "created" ->
              [crm |-> [c1 EXCEPT !.contacts = @ \cup {[id |-> id, email |-> email]}],
               ret |-> id, exc |-> None]
         [] outcome = "net_error" -> [crm |-> c1, ret |-> None, exc |-> "ConnectionError"]
         [] OTHER -> [crm |-> c1, ret |-> None, exc |-> None]
create_contact(c, email, env) ==
    LET exists == \E x \in c.contacts : x.email = email
        outcome == IF env.contact # "ok" THEN env.contact
                   ELSE IF exists THEN "conflict" ELSE "created"
        c1 == Call(c, "contacts.create", outcome)
        id == "c" \o ToString(Cardinality(c.contacts) + 1)
    IN CASE outcome = "created" ->
              [crm |-> [c1 EXCEPT !.contacts = @ \cup {[id |-> id, email |-> email]}],
               ret |-> id, exc |-> None]
         [] outcome = "conflict" -> find_contact_by_email(c1, email, env)
         [] outcome = "api_error" -> [crm |-> c1, ret |-> None, exc |-> None]
         [] outcome = "net_error" -> [crm |-> c1, ret |-> None, exc |-> "ConnectionError"]

\* HubSpotService._associate_deal_to_contact
associate_deal_to_contact(c, deal_id, contact_id, env) ==
    IF env.assoc = "ok"
    THEN [Call(c, "associations.create", "created")
            EXCEPT !.assocs = @ \cup {[contact |-> contact_id, deal |-> deal_id]}]
    ELSE Call(c, "associations.create", "error")

\* HubSpotService.create_deal
create_deal_always_associates(c, dealname, amount, contact_id, props, env) ==
    LET c1 == Call(c, "deals.create", IF env.deal = "ok" THEN "created" ELSE env.deal)
        id == "d" \o ToString(Cardinality(c.deals) + 1)
        c2 == [c1 EXCEPT !.deals = @ \cup {[id |-> id, dealname |-> dealname,
                                             amount |-> amount, props |-> props]}]
    IN CASE env.deal = "ok" ->
              [crm |-> associate_deal_to_contact(c2, id, contact_id, env),
               ret |-> id, exc |-> None]
         [] env.deal = "api_error" -> [crm |-> c1, ret |-> None, exc |-> None]
         [] env.deal = "net_error" -> [crm |-> c1, ret |-> None, exc |-> "ConnectionError"]
create_deal(c, dealname, amount, contact_id, props, env) ==
    LET c1 == Call(c, "deals.create", IF env.deal = "ok" THEN "created" ELSE env.deal)
        id == "d" \o ToString(Cardinality(c.deals) + 1)
        c2 == [c1 EXCEPT !.deals = @ \cup {[id |-> id, dealname |-> dealname,
                                             amount |-> amount, props |-> props]}]
    IN CASE env.deal = "ok" ->
              [crm |-> IF Truthy(contact_id)
                       THEN associate_deal_to_contact(c2, id, contact_id, env) ELSE c2,
               ret |-> id, exc |-> None]
         [] env.deal = "api_error" -> [crm |-> c1, ret |-> None, exc |-> None]
         [] env.deal = "net_error" -> [crm |-> c1, ret |-> None, exc |-> "ConnectionError"]

\* company_name.lower().replace(' ', '_')
LowerUnderscoreKeepsCase(company) == company
LowerUnderscore(company) ==
    CASE company = "Acme Co" -> "acme_co"
      [] company = "Bob Ltd" -> "bob_ltd"
      [] company = "Unknown Company" -> "unknown_company"
      [] OTHER -> company

PlaceholderEmail(company) == LowerUnderscore(company) \o "@gigradar.placeholder"

\* f"{v}"
Format(v) == IF v = None THEN "None" ELSE Str(v)

ClientEmail(data) == Or(Get(data, "job.client.email"), Get(data, "job.clientEmail"))
CompanyName(data) ==
    Or(Get(data, "job.client.company"), Or(Get(data, "job.companyName"), "Unknown Company"))
ContactEmail(data) ==
    IF Truthy(ClientEmail(data)) THEN ClientEmail(data) ELSE PlaceholderEmail(CompanyName(data))
DealName(data) == "GigRadar Opportunity: " \o Format(GetD(data, "job.title", "Untitled Job"))
DealAmount(data) ==
    LET budget == Or(Get(data, "job.budget"), Get(data, "job.hourlyRate"))
    IN IF Truthy(budget) THEN Str(budget) ELSE None

\* job.get("description", "")[:500]
LongText == "<text of 600 characters>"
Truncate500(v) == IF v = LongText THEN "<its first 500 characters>" ELSE v

DealProps(data) ==
    [gigradar_opportunity_id |-> GetD(data, "id", ""),
     gigradar_job_id |-> GetD(data, "jobId", ""),
     job_title |-> GetD(data, "job.title", ""),
     job_description |-> Truncate500(GetD(data, "job.description", ""))]

\* the statements inside the try of process_gigradar_opportunity: the CRM
\* after them, the ids assigned to the result and the exception that ended
\* them, if any
ProcessBody(c, isDict, data, env) ==
    LET blank == [crm |-> c, contact_id |-> None, deal_id |-> None, exc |-> None]
    IN IF ~isDict \/ ~JobIsDict(data) \/ ~ClientIsDict(data)
       THEN [blank EXCEPT !.exc = "AttributeError"]
       ELSE IF ~Truthy(ClientEmail(data)) /\ ~IsStr(CompanyName(data))
       THEN [blank EXCEPT !.exc = "AttributeError"]
       ELSE LET k == create_contact(c, ContactEmail(data), env)
            IN IF k.exc # None
               THEN [blank EXCEPT !.crm = k.crm, !.exc = k.exc]
               ELSE IF ~IsStr(GetD(data, "job.description", ""))
               THEN [blank EXCEPT !.crm = k.crm, !.contact_id = k.ret, !.exc = "TypeError"]
               ELSE LET d == create_deal(k.crm, DealName(data), DealAmount(data), k.ret,
                                            DealProps(data), env)
                    IN IF d.exc # None
                       THEN [crm |-> d.crm, contact_id |-> k.ret, deal_id |-> None, exc |-> d.exc]
                       ELSE [crm |-> d.crm, contact_id |-> k.ret, deal_id |-> d.ret, exc |-> None]

\* HubSpotService.process_gigradar_opportunity: the result document, and
\* whether the call raised instead of returning it
process_uncaught(c, isDict, data, env) ==
    LET b == ProcessBody(c, isDict, data, env)
    IN [crm |-> b.crm, raised |-> b.exc # None,
        result |-> [success |-> b.deal_id # None, contact_id |-> b.contact_id,
                    deal_id |-> b.deal_id, errors |-> <<>>]]
process_gigradar_opportunity(c, isDict, data, env) ==
    LET b == ProcessBody(c, isDict, data, env)
    IN [crm |-> b.crm, raised |-> FALSE,
        result |-> [success |-> Truthy(b.deal_id), contact_id |-> b.contact_id,
                    deal_id |-> b.deal_id,
                    errors |-> IF b.exc # None THEN <<b.exc>> ELSE <<>>]]

\* ------------------------------------------------------ the webhook view
NoResponse == [code |-> 0, status |-> Absent, error |-> Absent, message |-> Absent]

Response(code, status, error, message) ==
    [code |-> code, status |-> status, error |-> error, message |-> message]

OpportunityCreate == "GIGRADAR.OPPORTUNITY.CREATE"
ProposalUpdate == "GIGRADAR.PROPOSAL.UPDATE"
ProposalCreate == "GIGRADAR.PROPOSAL.CREATE"

\* auth_header.startswith('Basic ')
StartsWithBasic(h) == h \in {"Basic dXNlcjpwYXNz", "Basic d3Jvbmc="}

\* payload.get("event") or payload.get("type")
EventFieldOnly(payload) == Get(payload, "event")
EventType(payload) == Or(Get(payload, "event"), Get(payload, "type"))

\* payload.get("data") or payload: an empty object is falsy
DataIsPayload(req) == ~Truthy(req.outer["data"]) \/ (req.outer["data"] = Dict /\ req.inner = EmptyDoc)
DataOf(req) == IF DataIsPayload(req) THEN req.outer ELSE req.inner
DataIsDict(req) == DataIsPayload(req) \/ req.outer["data"] = Dict

\* GigradarWebhookView._handle_opportunity_create
handle_opportunity_create(c, cfg, isDict, data, env) ==
    IF ~cfg.hubspot
    THEN [crm |-> c, response |-> Response(200, "error", Absent, "HubSpot configuration error")]
    ELSE LET r == process_gigradar_opportunity(c, isDict, data, env)
         IN [crm |-> r.crm,
             response |->
                IF r.raised THEN Response(200, "error", Absent, "Failed to process opportunity")
                ELSE IF r.result.success
                THEN Response(200, "success", Absent, "Opportunity processed successfully")
                ELSE Response(200, "partial_success", Absent, "Opportunity processed with errors")]

\* GigradarWebhookView._handle_proposal_update
handle_proposal_update_500(st, pk, now, isDict, data) ==
    IF ~isDict
    THEN [store |-> st, response |-> Response(500, "error", Absent, "Failed to process proposal")]
    ELSE LET r == create_from_webhook_data(st, pk, now, data)
         IN [store |-> r.store,
             response |->
                CASE r.result = "ok" -> Response(200, "success", Absent, "Proposal saved successfully")
                  [] r.result = "ValueError" -> Response(200, "error", Absent, "Failed to save proposal")
                  [] OTHER -> Response(500, "error", Absent, "Failed to process proposal")]
handle_proposal_update(st, pk, now, isDict, data) ==
    IF ~isDict
    THEN [store |-> st, response |-> Response(200, "error", Absent, "Failed to process proposal")]
    ELSE LET r == create_from_webhook_data(st, pk, now, data)
         IN [store |-> r.store,
             response |->
                CASE r.result = "ok" -> Response(200, "success", Absent, "Proposal saved successfully")
                  [] r.result = "ValueError" -> Response(200, "error", Absent, "Failed to save proposal")
                  [] OTHER -> Response(200, "error", Absent, "Failed to process proposal")]

\* GigradarWebhookView.post: the store, the CRM and the response after it
post_token_unchecked(st, pk, now, c, cfg, req, env) ==
    LET same(resp) == [store |-> st, crm |-> c, response |-> resp]
        event == EventType(req.outer)
    IN IF req.body = "malformed"
       THEN same(Response(400, Absent, "Invalid JSON format", Absent))
       ELSE IF req.body # "object"
       THEN same(Response(200, "error", Absent, "Internal server error"))
       ELSE IF event = OpportunityCreate
       THEN LET h == handle_opportunity_create(c, cfg, DataIsDict(req), DataOf(req), env)
            IN [store |-> st, crm |-> h.crm, response |-> h.response]
       ELSE IF event \in {ProposalUpdate, ProposalCreate}
       THEN LET h == handle_proposal_update(st, pk, now, DataIsDict(req), DataOf(req))
            IN [store |-> h.store, crm |-> c, response |-> h.response]
       ELSE same(Response(200, "received", Absent, "Event received but not processed"))
post(st, pk, now, c, cfg, req, env) ==
    LET same(resp) == [store |-> st, crm |-> c, response |-> resp]
        event == EventType(req.outer)
    IN IF cfg.token # None /\ req.token # cfg.token
       THEN same(Response(401, Absent, "Invalid webhook token", Absent))
       ELSE IF req.body = "malformed"
       THEN same(Response(400, Absent, "Invalid JSON format", Absent))
       ELSE IF req.body = "bad_utf8"
       THEN same(Response(200, "error", Absent, "Internal server error"))
       ELSE IF cfg.userpass /\ ~StartsWithBasic(req.auth)
       THEN same(Response(401, Absent, "Authentication required", Absent))
       ELSE IF req.body # "object"
       THEN same(Response(200, "error", Absent, "Internal server error"))
       ELSE IF event = OpportunityCreate
       THEN LET h == handle_opportunity_create(c, cfg, DataIsDict(req), DataOf(req), env)
            IN [store |-> st, crm |-> h.crm, response |-> h.response]
       ELSE IF event \in {ProposalUpdate, ProposalCreate}
       THEN LET h == handle_proposal_update(st, pk, now, DataIsDict(req), DataOf(req))
            IN [store |-> h.store, crm |-> c, response |-> h.response]
       ELSE same(Response(200, "received", Absent, "Event received but not processed"))

\* ------------------------------------------------------ proposal payloads
Date1  == "2024-01-15T10:00:00Z"
Date1b == "2024-01-15 10:00:00+00:00"
Date2  == "2024-03-01T09:30:00Z"
Garbage == "not-a-date"
BadCalendar == "2024-02-30T10:00:00Z"
Number == "#1700000000"

IdPayloads ==
    { Doc("id" :> "p1"), Doc("proposalId" :> "p1"), Doc("_id" :> "p2"),
      Doc("id" :> "" @@ "proposalId" :> "p2"), Doc("id" :> "#7"),
      Doc("proposalId" :> "7"), EmptyDoc, Doc("id" :> None),
      Doc("id" :> "" @@ "_id" :> ""),
      Doc("id" :> "p1" @@ "proposalId" :> "p2" @@ "_id" :> "p2") }

Dated == Doc("id" :> "p1" @@ "sent" :> Date1 @@ "scheduledAt" :> Date2 @@ "createdAt" :> Date1
             @@ "opportunityId" :> "o1")

DatePayloads ==
    { With(Dated, "sent" :> v) : v \in {Date1, Date1b, Date2, Garbage, BadCalendar, None, Number, Absent} }
    \cup { With(Dated, "scheduledAt" :> v) : v \in {Date1, Garbage, BadCalendar, Absent} }
    \cup { With(Dated, "createdAt" :> v) : v \in {Date2, Garbage, BadCalendar} }
    \cup { With(Dated, "createdAt" :> Absent @@ "created_at" :> Date2),
           With(Dated, "createdAt" :> "" @@ "created_at" :> Garbage),
           With(Dated, "createdAt" :> Absent) }

Camel == Doc("id" :> "p1" @@ "opportunityId" :> "o1" @@ "jobId" :> "j1"
             @@ "error" :> TrueV @@ "errorCode" :> "E42" @@ "errorMessage" :> "boom"
             @@ "scannerId" :> "s1" @@ "scannerName" :> "Scanner" @@ "teamId" :> "t1"
             @@ "teamName" :> "Team")
Snake == Doc("proposalId" :> "p1" @@ "opportunity_id" :> "o2" @@ "job_id" :> "#7"
             @@ "hasError" :> TrueV @@ "error_code" :> "E7" @@ "error_message" :> "bang"
             @@ "scanner_id" :> "s2" @@ "scanner_name" :> "Other" @@ "team_id" :> "t2"
             @@ "team_name" :> "Crew")

FieldPayloads ==
    { Camel, Snake,
      With(Camel, "opportunity_id" :> "o2" @@ "errorCode" :> "" @@ "error_code" :> "E7"),
      With(Camel, "error" :> FalseV @@ "hasError" :> TrueV),
      With(Camel, "error" :> "timeout"),
      With(Camel, "error" :> None @@ "hasError" :> None),
      With(Snake, "_id" :> "p2" @@ "proposalId" :> Absent) }

Job == Doc("id" :> "p1" @@ "job" :> Dict @@ "job.title" :> "Build API"
           @@ "job.budget" :> "150" @@ "job.type" :> "fixed" @@ "job.client" :> Dict
           @@ "job.client.email" :> "a@b.com" @@ "job.client.name" :> "Ann"
           @@ "job.client.company" :> "Acme Co")
JobFlat == Doc("id" :> "p1" @@ "job" :> Dict @@ "job.jobTitle" :> "Fix bug"
               @@ "job.hourlyRate" :> "#75.5" @@ "job.jobType" :> "hourly"
               @@ "job.client" :> "Bob" @@ "job.clientEmail" :> "bob@c.org"
               @@ "job.clientName" :> "Bob" @@ "job.companyName" :> "Bob Ltd")

JobPayloads ==
    { Job, JobFlat,
      With(Job, "job.budget" :> "abc"),
      With(Job, "job.budget" :> "#0" @@ "job.fixedPrice" :> "#7"),
      With(Job, "job.budget" :> Number),
      With(JobFlat, "job.client" :> None),
      Doc("id" :> "p1" @@ "job" :> Dict),
      Doc("id" :> "p1" @@ "job" :> None),
      Doc("id" :> "p1" @@ "job" :> "a job"),
      With(Job, "id" :> "p2") }

StorePayloads == IdPayloads \cup DatePayloads \cup FieldPayloads \cup JobPayloads

\* ---------------------------------------------------- opportunity payloads
Lead == Doc("id" :> "op1" @@ "jobId" :> "j1" @@ "job" :> Dict @@ "job.title" :> "Build API"
            @@ "job.budget" :> "#75.5" @@ "job.description" :> LongText
            @@ "job.client" :> Dict @@ "job.client.email" :> "a@b.com"
            @@ "job.client.name" :> "Ann" @@ "job.client.company" :> "Acme Co")

OppPayloads ==
    { Lead,
      With(Lead, "job.client.email" :> Absent),
      With(Lead, "job.client.email" :> "" @@ "job.client.company" :> Absent @@ "job.title" :> Absent),
      With(Lead, "job.client.email" :> Absent @@ "job.client.company" :> "#7"),
      With(Lead, "job.client" :> Absent @@ "job.client.email" :> Absent @@ "job.client.name" :> Absent
                 @@ "job.client.company" :> Absent @@ "job.clientEmail" :> "bob@c.org"
                 @@ "job.companyName" :> "Bob Ltd" @@ "job.budget" :> Absent),
      With(Lead, "job.description" :> None),
      JobFlat,
      Doc("id" :> "op1" @@ "job" :> None),
      Doc("id" :> "op1") }

\* ------------------------------------------------------------- requests
Combined == With(Lead, "id" :> "p1" @@ "opportunityId" :> "op1" @@ "sent" :> Date1
                       @@ "errorCode" :> "E42")
Unsaveable == Doc("id" :> "p1" @@ "sent" :> Number @@ "job" :> None)
Anonymous == With(Lead, "id" :> Absent @@ "job.client.email" :> Absent)

Envelope(event, type, data) == Doc("event" :> event @@ "type" :> type @@ "data" :> data)
TopLevel(event, type, data, doc) == With(doc, "event" :> event @@ "type" :> type @@ "data" :> data)

Routes ==
    { <<OpportunityCreate, Absent>>, <<ProposalUpdate, Absent>>, <<ProposalCreate, Absent>>,
      <<"GIGRADAR.PING", Absent>>, <<Absent, Absent>>, <<Absent, OpportunityCreate>>,
      <<"", ProposalCreate>>, <<"GIGRADAR.PING", ProposalUpdate>> }

Bodies ==
    { [body |-> "object", outer |-> Envelope(r[1], r[2], Dict), inner |-> Combined] : r \in Routes }
    \cup { [body |-> "object", outer |-> Envelope(e, Absent, Dict), inner |-> d] :
              e \in {OpportunityCreate, ProposalUpdate},
              d \in {Anonymous, Unsaveable, With(Combined, "id" :> "p2" @@ "sent" :> Absent)} }
    \cup { [body |-> "object", outer |-> TopLevel(e, Absent, d, Combined), inner |-> EmptyDoc] :
              e \in {OpportunityCreate, ProposalUpdate}, d \in {Absent, Dict, "some text"} }
    \cup { [body |-> b, outer |-> EmptyDoc, inner |-> EmptyDoc] :
              b \in {"malformed", "bad_utf8", "list"} }

\* every body with the right and with a wrong path token, and some of them
\* without the Basic authorization header
Requests ==
    { [token |-> t, auth |-> "Basic dXNlcjpwYXNz", body |-> b.body, outer |-> b.outer,
       inner |-> b.inner] : t \in {"secret", "wrong"}, b \in Bodies }
    \cup { [token |-> "secret", auth |-> a, body |-> b.body, outer |-> b.outer, inner |-> b.inner] :
              a \in {""},
              b \in {x \in Bodies : x.inner = Combined \/ x.body \in {"malformed", "bad_utf8"}} }

\* ----------------------------------------------------------- specification
Init ==
    /\ store = {}
    /\ nextPk = 1
    /\ clock = 1
    /\ contacts = {} /\ deals = {} /\ assocs = {} /\ calls = <<>>
    /\ config = [token |-> None, userpass |-> FALSE, hubspot |-> TRUE]
    /\ response = NoResponse
    /\ nOps = 0
    /\ last = [op |-> "none"]
    /\ workers = <<>>

\* one call of GigradarProposal.create_from_webhook_data
CreateFromWebhookData(data) ==
    /\ nOps < MaxDeliveries
    /\ LET r == create_from_webhook_data(store, nextPk, clock, data)
       IN /\ store' = r.store
          /\ nextPk' = IF Cardinality(r.store) > Cardinality(store) THEN nextPk + 1 ELSE nextPk
          /\ last' = [op |-> "create_from_webhook_data", data |-> data,
                      result |-> r.result, pid |-> r.pid,
                      repeat |-> (last.op = "create_from_webhook_data" /\ last.data = data)]
    /\ clock' = clock + 1
    /\ nOps' = nOps + 1
    /\ UNCHANGED <<crmVars, viewVars, raceVars>>

NextStore == \E data \in StorePayloads : CreateFromWebhookData(data)

SpecStore == Init /\ [][NextStore]_vars

\* the answers in env to calls the operation did not issue are the default
\* ones: each behaviour of the CRM is listed once
Observed(env, log) ==
    LET made(api) == \E i \in 1..Len(log) : log[i].api = api
    IN /\ made("contacts.create") \/ env.contact = "ok"
       /\ made("contacts.search") \/ env.search = "found"
       /\ made("deals.create") \/ env.deal = "ok"
       /\ made("associations.create") \/ env.assoc = "ok"

SetCrm(c) ==
    /\ contacts' = c.contacts /\ deals' = c.deals /\ assocs' = c.assocs /\ calls' = c.calls

\* one call of HubSpotService.create_contact
CreateContact(email, env) ==
    /\ nOps < MaxCalls
    /\ LET r == create_contact(Crm, email, env)
       IN /\ Observed(env, r.crm.calls)
          /\ SetCrm(r.crm)
          /\ last' = [op |-> "create_contact", email |-> email, ret |-> r.ret,
                      raised |-> r.exc # None]
    /\ nOps' = nOps + 1
    /\ UNCHANGED <<storeVars, viewVars, raceVars>>

\* one call of HubSpotService.create_deal
CreateDeal(dealname, contact_id, env) ==
    /\ nOps < MaxCalls
    /\ LET r == create_deal(Crm, dealname, None, contact_id, [job_title |-> ""], env)
       IN /\ Observed(env, r.crm.calls)
          /\ SetCrm(r.crm)
          /\ last' = [op |-> "create_deal", contact_id |-> contact_id, ret |-> r.ret,
                      raised |-> r.exc # None]
    /\ nOps' = nOps + 1
    /\ UNCHANGED <<storeVars, viewVars, raceVars>>

\* one call of HubSpotService.process_gigradar_opportunity
ProcessOpportunity(data, env) ==
    /\ nOps < MaxCalls
    /\ LET r == process_gigradar_opportunity(Crm, TRUE, data, env)
       IN /\ Observed(env, r.crm.calls)
          /\ SetCrm(r.crm)
          /\ last' = [op |-> "process_gigradar_opportunity", data |-> data,
                      result |-> r.result, raised |-> r.raised]
    /\ nOps' = nOps + 1
    /\ UNCHANGED <<storeVars, viewVars, raceVars>>

NextCrm ==
    \E env \in Answers :
       \/ \E email \in {"a@b.com", "acme_co@gigradar.placeholder"} : CreateContact(email, env)
       \/ \E id \in {None} \cup {x.id : x \in contacts} : CreateDeal("Deal", id, env)
       \/ \E data \in OppPayloads : ProcessOpportunity(data, env)

SpecCrm == Init /\ [][NextCrm]_vars

Configs == [token : {None, "secret"}, userpass : BOOLEAN, hubspot : BOOLEAN]

\* the table after an earlier delivery for proposal p1
Seeded == create_from_webhook_data({}, 1, 1, Dated).store

\* the service as deployed: any configuration, the table empty or holding a
\* record of an earlier delivery
InitView ==
    /\ store \in {{}, Seeded}
    /\ nextPk = Cardinality(store) + 1 /\ clock = Cardinality(store) + 1
    /\ contacts = {} /\ deals = {} /\ assocs = {} /\ calls = <<>>
    /\ config \in Configs
    /\ response = NoResponse
    /\ nOps = 0
    /\ last = [op |-> "none"]
    /\ workers = <<>>

\* one POST to /hooks/catch/<webhook_token>/
Post(req, env) ==
    /\ nOps < MaxPosts
    /\ \E r \in {post(store, nextPk, clock, Crm, config, req, env)} :
          /\ Observed(env, r.crm.calls)
          /\ store' = r.store
          /\ nextPk' = IF Cardinality(r.store) > Cardinality(store) THEN nextPk + 1 ELSE nextPk
          /\ SetCrm(r.crm)
          /\ response' = r.response
          /\ last' = [op |-> "post", req |-> req, before |-> store]
    /\ clock' = clock + 1
    /\ nOps' = nOps + 1
    /\ UNCHANGED <<config, raceVars>>

\* the CRM answers that matter to a request: one when it does not reach the
\* CRM; the search is asked only for a contact the CRM holds
AnswersFor(req) ==
    UNION { IF quiet = <<>> THEN {Quiet}
            ELSE IF Made(quiet, "contacts.create", "conflict") THEN Answers
            ELSE {a \in Answers : a.search = "found"} :
            quiet \in {post(store, nextPk, clock, Crm, config, req, Quiet).crm.calls} }

Next == \E req \in Requests : \E env \in AnswersFor(req) : Post(req, env)

Spec == InitView /\ [][Next]_vars

\* ------------------------------------------- two concurrent deliveries
\* the worker processes serving two deliveries at the same time
Racers == {1, 2}

\* payloads for proposal p1: with and without timestamps, with a job, and one
\* whose save raises
RacePayloads ==
    { Dated, With(Dated, "sent" :> Date2 @@ "opportunityId" :> "o2"), Camel, JobFlat,
      Doc("proposalId" :> "p1"), Unsaveable }

\* no object loaded yet
NoObject == BareRow(0, None, 0)

InitRace ==
    /\ store \in {{}, Seeded}
    /\ nextPk = Cardinality(store) + 1 /\ clock = Cardinality(store) + 1
    /\ contacts = {} /\ deals = {} /\ assocs = {} /\ calls = <<>>
    /\ config = [token |-> None, userpass |-> FALSE, hubspot |-> TRUE]
    /\ response = NoResponse
    /\ nOps = 0
    /\ last = [op |-> "none"]
    /\ workers \in [Racers -> {[pc |-> "get", data |-> d, obj |-> NoObject, savedAt |-> 0] :
                                  d \in RacePayloads}]

\* get_or_create, first half: the SELECT by proposal_id
RaceGet(w) ==
    /\ workers[w].pc = "get"
    /\ LET hits == Lookup(store, ExtractId(workers[w].data))
       IN workers' = IF hits # {}
                     THEN [workers EXCEPT ![w].pc = "map", ![w].obj = CHOOSE r \in hits : TRUE]
                     ELSE [workers EXCEPT ![w].pc = "create"]
    /\ clock' = clock + 1
    /\ nOps' = nOps + 1
    /\ UNCHANGED <<store, nextPk, crmVars, viewVars, last>>

\* get_or_create, second half after a miss: the INSERT, which the unique
\* proposal_id column refuses when the row came in meanwhile; the row is
\* then read
RaceCreate(w) ==
    /\ workers[w].pc = "create"
    /\ LET pid == ExtractId(workers[w].data)
           st1 == GetOrCreate(store, nextPk, pid, clock)
       IN /\ store' = st1
          /\ nextPk' = IF Cardinality(st1) > Cardinality(store) THEN nextPk + 1 ELSE nextPk
          /\ workers' = [workers EXCEPT ![w].pc = "map",
                                        ![w].obj = CHOOSE r \in Lookup(st1, pid) : TRUE]
    /\ clock' = clock + 1
    /\ nOps' = nOps + 1
    /\ UNCHANGED <<crmVars, viewVars, last>>

\* the attribute assignments on the loaded object and proposal.save()
RaceSave(w) ==
    /\ workers[w].pc = "map"
    /\ LET p == MapFields(workers[w].obj, workers[w].data)
       IN IF SaveRaises(p)
          THEN /\ workers' = [workers EXCEPT ![w].pc = "failed"]
               /\ UNCHANGED store
          ELSE /\ workers' = [workers EXCEPT ![w].pc = "saved", ![w].savedAt = clock]
               /\ store' = Save(store, p, clock)
    /\ clock' = clock + 1
    /\ nOps' = nOps + 1
    /\ UNCHANGED <<nextPk, crmVars, viewVars, last>>

NextRace == \E w \in Racers : RaceGet(w) \/ RaceCreate(w) \/ RaceSave(w)

SpecRace == InitRace /\ [][NextRace]_vars

\* ------------------------------------------------------------------ claims
Delivered(l) == l.op = "create_from_webhook_data"

RowOf(st, pid) == CHOOSE r \in st : r.proposal_id = pid
Stored(st, pid) == \E r \in st : r.proposal_id = pid

UniqueProposalId(st) == \A r1, r2 \in st : r1.proposal_id = r2.proposal_id => r1 = r2

\* C1: the store holds at most one record per proposal_id; a delivery whose
\* proposal_id is already stored inserts no second record; no delivery
\* deletes a record.
C1_UpsertNotDuplicate ==
    /\ UniqueProposalId(store)
    /\ [][ /\ UniqueProposalId(store')
           /\ \A r \in store : \E r2 \in store' :
                 r2.pk = r.pk /\ r2.proposal_id = r.proposal_id
           /\ (Delivered(last') /\ Stored(store, last'.pid))
                 => Cardinality(store') = Cardinality(store) ]_vars

\* C1 witness: a second delivery for a stored proposal_id updated its record
\* and the store still holds that one record.
C1_Witness ==
    /\ Delivered(last) /\ last.result = "ok"
    /\ \E r \in store : r.proposal_id = last.pid /\ r.updated > r.created
    /\ Cardinality(store) = 1

AsideUpdated(r) == [r EXCEPT !.updated = 0]

CarriesId(data) == \E k \in IdKeys : data[k] \notin {Absent, None, ""}

\* C2: delivering again the payload that was just stored leaves the store as
\* it was, the 'updated' timestamp aside: same records, same identifier, same
\* field values, raw_data equal to the payload.
C2_Idempotent ==
    [][ (Delivered(last) /\ Delivered(last') /\ last'.data = last.data
           /\ CarriesId(last.data) /\ last.result = "ok")
        => /\ last'.result = "ok"
           /\ last'.pid = last.pid
           /\ {AsideUpdated(r) : r \in store'} = {AsideUpdated(r) : r \in store}
           /\ Stored(store', last'.pid)
           /\ RowOf(store', last'.pid).raw_data = last'.data ]_vars

\* C2 witness: the same payload was delivered twice and saved, and only the
\* 'updated' timestamp of its record moved.
C2_Witness ==
    /\ Delivered(last) /\ last.repeat /\ last.result = "ok"
    /\ \E r \in store : r.proposal_id = last.pid /\ r.updated > r.created
                        /\ r.raw_data = last.data

\* C3: a payload in which none of id, proposalId, _id carries a value fails
\* with ValueError and leaves the store as it was.
C3_NoIdNoWrite ==
    [][ (Delivered(last') /\ ~CarriesId(last'.data))
        => (last'.result = "ValueError" /\ store' = store) ]_vars

\* C3 witness: a payload without identifier was refused while the store held
\* a record.
C3_Witness ==
    /\ Delivered(last) /\ ~CarriesId(last.data)
    /\ last.result = "ValueError" /\ store # {}

MappedAttributes ==
    {"opportunity_id", "job_id", "sent_at", "scheduled_at", "created_at",
     "has_error", "error_code", "error_message",
     "scanner_id", "scanner_name", "team_id", "team_name",
     "job_title", "job_budget", "job_type",
     "client_email", "client_name", "client_company", "raw_data"}

\* the record a first delivery of data alone produces
FromPayloadAlone(data) == Prepared(MapFields(BareRow(0, ExtractId(data), 0), data), 0)

Redelivered(l, st) == Delivered(l) /\ l.result = "ok" /\ Stored(st, l.pid)

\* C4 as stated: after a saved delivery for a stored proposal_id every
\* payload-mapped attribute has the value derived from the new payload alone.
C4_FullOverwrite ==
    [][ Redelivered(last', store)
        => \A f \in MappedAttributes :
              RowOf(store', last'.pid)[f] = FromPayloadAlone(last'.data)[f] ]_vars

AlwaysOverwritten ==
    {"opportunity_id", "job_id", "has_error", "error_code", "error_message",
     "scanner_id", "scanner_name", "team_id", "team_name", "raw_data"}
JobAttributes == {"job_title", "job_type", "client_email", "client_name", "client_company"}

KeysOf(f) ==
    CASE f = "opportunity_id" -> {"opportunityId", "opportunity_id"}
      [] f = "job_id" -> {"jobId", "job_id"}
      [] f = "has_error" -> {"error", "hasError"}
      [] f = "error_code" -> {"errorCode", "error_code"}
      [] f = "error_message" -> {"errorMessage", "error_message"}
      [] f = "scanner_id" -> {"scannerId", "scanner_id"}
      [] f = "scanner_name" -> {"scannerName", "scanner_name"}
      [] f = "team_id" -> {"teamId", "team_id"}
      [] f = "team_name" -> {"teamName", "team_name"}
      [] f = "sent_at" -> {"sent"}
      [] f = "scheduled_at" -> {"scheduledAt"}
      [] f = "created_at" -> {"createdAt", "created_at"}
      [] f = "job_title" -> {"job.title", "job.jobTitle"}
      [] f = "job_type" -> {"job.type", "job.jobType"}
      [] f = "job_budget" -> {"job.budget", "job.hourlyRate", "job.fixedPrice"}
      [] f = "client_email" -> {"job.client.email", "job.clientEmail"}
      [] f = "client_name" -> {"job.client.name", "job.clientName"}
      [] f = "client_company" -> {"job.client.company", "job.companyName"}
      [] OTHER -> {}

Omits(data, f) == \A k \in KeysOf(f) : data[k] = Absent

EmptyValue(f) ==
    CASE f \in {"opportunity_id", "job_id"} -> ""
      [] f = "has_error" -> FalseV
      [] OTHER -> None

\* C4 amended: a delivery for a stored proposal_id either fails in its save
\* and leaves the record as it was, or overwrites from the new payload alone
\* the ids, the error flag/code/message, scanner/team and raw_data, and (the
\* payload's job being absent or an object) job title/type and the client
\* attributes, so that an attribute the payload omits is reset to its empty
\* value; a timestamp whose key the payload omits and a job_budget for which
\* the payload has no budget key keep the value of the earlier delivery, as
\* do the job and client attributes when the payload's job is no object.
C4_OverwriteExceptGuarded ==
    [][ (Delivered(last') /\ CarriesId(last'.data) /\ Stored(store, last'.pid))
        => LET old == RowOf(store, last'.pid)
               new == RowOf(store', last'.pid)
               data == last'.data
           IN IF last'.result # "ok" THEN store' = store
              ELSE /\ new.raw_data = data
                   /\ \A f \in AlwaysOverwritten \ {"raw_data"} :
                         /\ new[f] = FromPayloadAlone(data)[f]
                         /\ Omits(data, f) => new[f] = EmptyValue(f)
                   /\ \A f \in JobAttributes :
                         IF data["job"] \in {Absent, Dict}
                         THEN /\ new[f] = FromPayloadAlone(data)[f]
                              /\ Omits(data, f) => new[f] = None
                         ELSE new[f] = old[f]
                   /\ \A f \in {"sent_at", "scheduled_at", "created_at", "job_budget"} :
                         Omits(data, f) => new[f] = old[f] ]_vars

\* C4 witness: a saved delivery for a stored proposal_id omitted 'sent' and
\* the error code; the record still has the sent_at of the earlier delivery
\* and its error code was reset.
C4_Witness ==
    /\ Delivered(last) /\ last.result = "ok" /\ ~last.repeat
    /\ Omits(last.data, "sent_at") /\ Omits(last.data, "error_code")
    /\ \E r \in store : /\ r.proposal_id = last.pid /\ r.updated > r.created
                        /\ r.sent_at # None /\ r.error_code = None

TimestampAttributes == {"sent_at", "scheduled_at", "created_at"}

\* the payload's value for a timestamp attribute
TimestampValue(data, f) ==
    CASE f = "sent_at" -> data["sent"]
      [] f = "scheduled_at" -> data["scheduledAt"]
      [] f = "created_at" ->
           IF Truthy(data["createdAt"]) \/ data["created_at"] = Absent
           THEN data["createdAt"] ELSE data["created_at"]

MalformedDate(v) == IsStr(v) /\ v # "" /\ v \notin DateValid

\* C5: with a malformed date string in exactly one timestamp field and valid
\* dates in the other two, the record is saved, that timestamp is unset (new
\* record) or unchanged (stored record) and the other two are populated.
C5_MalformedLeftUnchanged ==
    [][ \A f \in TimestampAttributes :
          (/\ Delivered(last') /\ CarriesId(last'.data)
           /\ MalformedDate(TimestampValue(last'.data, f))
           /\ \A g \in TimestampAttributes \ {f} : TimestampValue(last'.data, g) \in DateValid)
          => /\ last'.result = "ok"
             /\ RowOf(store', last'.pid)[f] =
                   (IF Stored(store, last'.pid) THEN RowOf(store, last'.pid)[f] ELSE None)
             /\ \A g \in TimestampAttributes \ {f} : IsDatetime(RowOf(store', last'.pid)[g]) ]_vars

C10_NeverRaises ==
    last.op = "process_gigradar_opportunity"
    => LET res == last.result
           data == last.data
       IN /\ ~last.raised
          /\ res.success = TRUE <=> res.deal_id # None
          /\ res.success = TRUE <=> Made(calls, "deals.create", "created")
          /\ res.deal_id # None => \E d \in deals : d.id = res.deal_id
          /\ (\E i \in 1..Len(calls) : calls[i].outcome = "net_error") => res.errors # <<>>
          /\ (~JobIsDict(data) \/ ~ClientIsDict(data)) => (res.errors # <<>> /\ calls = <<>>)
          /\ (data["job.description"] = None /\ res.contact_id # None) => res.errors # <<>>
          /\ res.errors = <<>> => \E i \in 1..Len(calls) : calls[i].api = "deals.create"
          /\ res.errors # <<>> => ~res.success

\* C10 witness: the flow created a contact and then ended in an exception,
\* which the result document reports without a deal.
C10_Witness ==
    /\ last.op = "process_gigradar_opportunity" /\ ~last.raised
    /\ last.result.errors # <<>> /\ last.result.contact_id # None
    /\ last.result.deal_id = None /\ ~last.result.success

\* an opportunity payload of the expected shape that names no client email,
\* neither in job.client nor flat in job
NoClientEmail(data) ==
    /\ JobIsDict(data) /\ ClientIsDict(data)
    /\ ~Truthy(Get(data, "job.client.email")) /\ ~Truthy(Get(data, "job.clientEmail"))
    /\ IsStr(GetD(data, "job.description", ""))

\* the company the payload names, if it names one
NamedCompany(data) ==
    IF Truthy(Get(data, "job.client.company")) THEN data["job.client.company"]
    ELSE IF Truthy(Get(data, "job.companyName")) THEN data["job.companyName"]
    ELSE None

\* the placeholder address the specification gives for the payload
PlaceholderFor(data) ==
    CASE NamedCompany(data) = "Acme Co" -> "acme_co@gigradar.placeholder"
      [] NamedCompany(data) = "Bob Ltd" -> "bob_ltd@gigradar.placeholder"
      [] NamedCompany(data) = None -> "unknown_company@gigradar.placeholder"
      [] OTHER -> None

RaceDone == \A w \in Racers : workers[w].pc \in {"saved", "failed"}

\* the delivery whose save was the last one
SavedLast(w) ==
    /\ workers[w].pc = "saved"
    /\ \A v \in Racers : workers[v].pc = "saved" => workers[v].savedAt <= workers[w].savedAt

\* C12: when two concurrent deliveries for proposal p1 have ended, in
\* whatever order their lookups, inserts and saves ran, the store holds
\* exactly one record for p1, and if a save was made that record is, column
\* by column, the object the last saving delivery held when it saved.
C12_LastWriteWins ==
    RaceDone
    => /\ Cardinality(Lookup(store, "p1")) = 1
       /\ Cardinality(store) = 1
       /\ \A w \in Racers :
             SavedLast(w)
             => RowOf(store, "p1")
                  = Prepared(MapFields(workers[w].obj, workers[w].data), workers[w].savedAt)

\* C12 witness: the second delivery loaded the record before the first one
\* saved its sent timestamp and saved after it, with a payload without that
\* timestamp: the record ends without it.
C12_Witness ==
    /\ DOMAIN workers = Racers /\ RaceDone
    /\ \E a, b \in Racers :
          /\ workers[a].pc = "saved" /\ workers[b].pc = "saved"
          /\ workers[a].savedAt < workers[b].savedAt
          /\ Has(workers[a].data, "sent") /\ ~Has(workers[b].data, "sent")
          /\ workers[b].obj.sent_at = None
          /\ RowOf(store, "p1").sent_at = None
          /\ RowOf(store, "p1").raw_data = workers[b].data

\* the position of the association call in the log, 0 when there is none
AssociationAt(log) ==
    IF \E i \in 1..Len(log) : log[i].api = "associations.create"
    THEN CHOOSE i \in 1..Len(log) : log[i].api = "associations.create"
    ELSE 0

Posted == last.op = "post"
TokenMismatch == config.token # None /\ last.req.token # config.token
BasicMissing == config.userpass /\ last.req.auth \notin {"Basic dXNlcjpwYXNz", "Basic d3Jvbmc="}

\* the event type of the request: its event field, else its type field
EventOf(req) ==
    IF req.outer["event"] \notin {Absent, None, ""} THEN req.outer["event"]
    ELSE IF req.outer["type"] = Absent THEN None ELSE req.outer["type"]

ProposalEvents == {"GIGRADAR.PROPOSAL.UPDATE", "GIGRADAR.PROPOSAL.CREATE"}
OpportunityEvent == "GIGRADAR.OPPORTUNITY.CREATE"

\* C6: with WEBHOOK_TOKEN configured and a different token in the path, the
\* POST answers 401, the store is what it was before the request and no CRM
\* call was made, whatever the body and the event type.
C6_TokenMismatchNoEffect ==
    (Posted /\ TokenMismatch)
    => /\ response.code = 401
       /\ store = last.before
       /\ calls = <<>>

\* C6 witness: a proposal event with a wrong token was refused while the
\* store held a record of an earlier request.
C6_Witness ==
    /\ Posted /\ TokenMismatch /\ response.code = 401
    /\ last.req.body = "object" /\ EventOf(last.req) \in ProposalEvents
    /\ CarriesId(DataOf(last.req))
    /\ store # {}

ErrorShaped == response.status \in {"error", "partial_success"}

Accepted == Posted /\ ~TokenMismatch /\ last.req.body = "object" /\ ~BasicMissing

C14_DataFieldWins ==
    (Accepted /\ Has(last.req.outer, "data") /\ EventOf(last.req) \in ProposalEvents)
    => \A r \in store \ last.before : r.raw_data # last.req.outer

\* C15 as stated: whenever an accepted proposal event is answered with an
\* error-shaped body, the store is exactly what it was before the request.
C15_AllOrNothing ==
    (Accepted /\ EventOf(last.req) \in ProposalEvents /\ ErrorShaped)
    => store = last.before

====
